---- MODULE Spec2Model ----
(***************************************************************************)
(* A model of the Smart Alpha dashboard pipeline:                          *)
(*   core/utils.py          HttpClient.jget, safe_float                    *)
(*   core/data_sources.py   universe resolution and the source adapters    *)
(*   core/scoring.py        the four sub-scores and the composite score    *)
(*   smart_alpha_dashboard.py  one refresh cycle (the script, top to       *)
(*                          bottom)                                        *)
(*                                                                         *)
(* Number representation.  Python floats are modelled in fixed point:      *)
(* scores, percentages, day counts and ratios are integers in thousandths  *)
(* (1.5 is 1500); the composite score is in units of 1e-5 (50.0 is         *)
(* 5000000), because it multiplies a thousandth by a weight in hundredths. *)
(* Prices, volumes and market caps are whole units.                        *)
(*                                                                         *)
(* Python values of mixed type are tagged records: None, Num(v), Str(s).   *)
(***************************************************************************)
EXTENDS Integers, Sequences, FiniteSets, TLC

VARIABLES
    \* ---- a call of one pure function (scoring.py, parse_next_unlock, the
    \*      joiner's candle derivation): its name, arguments and result
    call,
    \* ---- one call of HttpClient.jget
    h_pc,        \* "idle" | "loop" | "returned" | "raised"
    h_retries,   \* the retries argument
    h_i,         \* the loop variable i of `for i in range(retries)`
    h_requests,  \* the outcomes of the session.get calls issued, in order
    h_sleeps,    \* the time.sleep calls issued, in half seconds, in order
    h_last_err,  \* the local last_err
    h_result,    \* what the call returned or raised
    \* ---- one refresh cycle of smart_alpha_dashboard.py
    pc,          \* position in the script
    min_qvol,    \* sidebar control "Min 24h Quote Volume (USDT)"
    alpha_resp,  \* what the alpha token-list endpoint answered
    ex_resp,     \* what get_exchange_info returned (or "raise")
    alpha_map,   \* the frame returned by map_alpha_to_binance (a sequence of rows)
    stats,       \* the frame returned by get_ticker_24h_all
    idx,         \* number of alpha_map rows the loop has consumed
    visited,     \* the spot symbols of the rows the loop has consumed, in order
    rows,        \* the local rows
    candles,     \* what the klines endpoint holds for the candidate of each row
                 \* of rows: [kl1h, kl15], each a series or "raise" (unavailable)
    df,          \* the sorted frame handed to the display code
    outcome,     \* "running" | "ranked" | "stopped" | "crashed"
    reports      \* the st.error / st.warning messages shown, in order

vars == <<call, h_pc, h_retries, h_i, h_requests, h_sleeps, h_last_err, h_result,
          pc, min_qvol, alpha_resp, ex_resp, alpha_map, stats, idx, visited,
          rows, candles, df, outcome, reports>>

callVars == <<call>>
httpVars == <<h_pc, h_retries, h_i, h_requests, h_sleeps, h_last_err, h_result>>
cycleVars == <<pc, min_qvol, alpha_resp, ex_resp, alpha_map, stats, idx, visited,
               rows, candles, df, outcome, reports>>

(***************************************************************************)
(* Python values                                                           *)
(***************************************************************************)
None == [t |-> "none"]
Num(v) == [t |-> "num", v |-> v]
Str(s) == [t |-> "str", v |-> s]

IsNone(x) == x.t = "none"
IsNum(x) == x.t = "num"

\* Python truthiness of a scalar: None, 0 / 0.0 and "" are falsy.
Truthy(x) ==
    CASE x.t = "none" -> FALSE
      [] x.t = "num" -> x.v # 0
      [] x.t = "str" -> x.v # ""
      [] OTHER -> TRUE

\* `a or b`
Or(a, b) == IF Truthy(a) THEN a ELSE b

\* The decimal strings float() is applied to in the model, with their values.
\* Volumes and prices are whole units; percentages are thousandths.
FloatTable ==
    [s \in {"1000000.0", "10000000.0", "150.0", "2.5", "12"} |->
        CASE s = "1000000.0" -> 1000000
          [] s = "10000000.0" -> 10000000
          [] s = "150.0" -> 150
          [] s = "2.5" -> 2500
          [] s = "12" -> 12000]

\* float(x) succeeds on a number and on a decimal string; it raises TypeError on
\* None and ValueError on any other string.
FloatOk(x) == x.t = "num" \/ (x.t = "str" /\ x.v \in DOMAIN FloatTable)
FloatVal(x) == IF x.t = "num" THEN x.v ELSE FloatTable[x.v]

\* utils.safe_float: float(x), or the default when float raises.
safe_float(x, default) == IF FloatOk(x) THEN Num(FloatVal(x)) ELSE default

Min2(a, b) == IF a < b THEN a ELSE b
Max2(a, b) == IF a > b THEN a ELSE b

(***************************************************************************)
(* core/scoring.py                                                         *)
(***************************************************************************)
\* nz: float(x), or d when float raises.  The result is a plain number.
nz(x, d) == IF FloatOk(x) THEN FloatVal(x) ELSE d

\* The volume-acceleration term of momentum_score (scoring.py line 17).
accel_term(vol_accel) == (Max2(Min2(nz(vol_accel, 0), 8000), 0) - 1000) * 12

momentum_score(chg_15m, chg_1h, chg_4h, chg_24h, vol_accel) ==
    ( Max2(Min2(nz(chg_15m, 0), 50000), -25000) * 20
    + Max2(Min2(nz(chg_1h, 0), 50000), -25000) * 35
    + Max2(Min2(nz(chg_4h, 0), 60000), -30000) * 20
    + Max2(Min2(nz(chg_24h, 0), 80000), -40000) * 10 ) \div 100
    + accel_term(vol_accel)

\* log10 of a positive power of ten (the market caps of the model are powers
\* of ten, so the logarithm is exact).
RECURSIVE Log10(_)
Log10(n) == IF n < 10 THEN 0 ELSE 1 + Log10(n \div 10)

fundamental_score(mcap_usd, fdv_usd, circ_ratio) ==
    LET mc == nz(mcap_usd, 0)
        fdv == nz(fdv_usd, 0)
        cr == nz(circ_ratio, 0)
        s1 == IF mc > 0 THEN Max2(0, 12000 - 1000 * Log10(mc)) ELSE 0
        s2 == IF fdv > 0 /\ mc > 0
              THEN IF fdv * 10 < 13 * mc THEN 2000
                   ELSE IF fdv < 2 * mc THEN 500
                   ELSE -1000
              ELSE 0
        s3 == IF cr > 0
              THEN IF cr >= 600 THEN 1500
                   ELSE IF cr <= 200 THEN -1000
                   ELSE 0
              ELSE 0
    IN s1 + s2 + s3

\* A variant of the timing band that tests the widest window first.
timing_penalty_farthest_first(d, p) ==
    IF d <= 14000 /\ p >= 1000 THEN -1500
    ELSE IF d <= 7000 /\ p >= 1000 THEN -3000
    ELSE IF d <= 3000 /\ p >= 1000 THEN -5000
    ELSE 0

\* The timing band of unlock_risk_score: the if / elif / elif chain.
timing_penalty(d, p) ==
    IF d <= 3000 /\ p >= 1000 THEN -5000
    ELSE IF d <= 7000 /\ p >= 1000 THEN -3000
    ELSE IF d <= 14000 /\ p >= 1000 THEN -1500
    ELSE 0

unlock_risk_score(days_to_unlock, pct_unlock) ==
    LET d == nz(days_to_unlock, 999000)
        p == nz(pct_unlock, 0)
    IN timing_penalty(d, p)
       + (IF p >= 5000 THEN -3000 ELSE 0)
       + (IF p >= 10000 THEN -5000 ELSE 0)

\* commits_30d and contributors are counts (whole numbers) or None.
usage_dev_score(active_users, tvl_change_7d, commits_30d, contributors) ==
      (IF ~IsNone(tvl_change_7d)
       THEN IF tvl_change_7d.v > 10000 THEN 2000
            ELSE IF tvl_change_7d.v < -10000 THEN -1000 ELSE 0
       ELSE 0)
    + (IF ~IsNone(commits_30d)
       THEN IF commits_30d.v > 50 THEN 2000
            ELSE IF commits_30d.v > 10 THEN 1000 ELSE 0
       ELSE 0)
    + (IF ~IsNone(contributors)
       THEN IF contributors.v >= 5 THEN 1000 ELSE 0
       ELSE 0)

\* The weights of smart_alpha_score, in hundredths.
W_momentum == 35
W_fundamentals == 25
W_unlock == 20
W_usage == 20

\* components.get(k, 0): components is a function on the keys it has.
Get0(components, k) == IF k \in DOMAIN components THEN components[k] ELSE 0

\* total + 50, in units of 1e-5.
shifted_total(components) ==
      Get0(components, "momentum") * W_momentum
    + Get0(components, "fundamentals") * W_fundamentals
    + Get0(components, "unlock") * W_unlock
    + Get0(components, "usage") * W_usage
    + 50 * 100000

\* A variant of smart_alpha_score that drops the upper cap.
smart_alpha_score_floor_only(components) == Max2(0, shifted_total(components))

smart_alpha_score(components) ==
    Max2(0, Min2(100 * 100000, shifted_total(components)))

(***************************************************************************)
(* core/data_sources.py: parse_next_unlock                                 *)
(***************************************************************************)
\* A date value of an unlock event: v is the day of the unlock, counted from
\* the moment of the refresh cycle (negative: in the past).  Always truthy.
Date(v) == [t |-> "date", v |-> v]

\* d.get(k) on a dict modelled as a function on the keys it has.
Get(d, k) == IF k \in DOMAIN d THEN d[k] ELSE None

EmptyDict == [k \in {} |-> None]

\* An unlock payload is [t |-> "dict", upcoming, events] (each None, one event
\* dict [t |-> "event", d] or a list [t |-> "list", v] of event dicts) or a
\* non-dict [t |-> "other"].
Dict(upcoming, events) == [t |-> "dict", upcoming |-> upcoming, events |-> events]
List(v) == [t |-> "list", v |-> v]
Event(d) == [t |-> "event", d |-> d]

\* Truthiness of unlocks.get("upcoming"): an empty list is falsy, and so is an
\* empty dict.
TruthyColl(x) ==
    CASE x.t = "none" -> FALSE
      [] x.t = "list" -> x.v # <<>>
      [] x.t = "event" -> DOMAIN x.d # {}
      [] OTHER -> TRUE

NoUnlock == [next_date |-> None, next_pct |-> None, next_usd |-> None]

\* The fields read off one event (data_sources.py lines 165-167).
event_fields(e) ==
    [next_date |-> Or(Or(Get(e, "date"), Get(e, "time")), Get(e, "unlockDate")),
     next_pct |-> safe_float(Or(Or(Get(e, "percent"), Get(e, "pct")),
                                Get(e, "percentage")), None),
     next_usd |-> safe_float(Or(Or(Get(e, "usdValue"), Get(e, "valueUsd")),
                                Get(e, "usd")), None)]

\* evs: unlocks.get("upcoming") or unlocks.get("events") or [], a single dict
\* wrapped into a one-element list.
event_list(unlocks) ==
    LET got == IF TruthyColl(unlocks.upcoming) THEN unlocks.upcoming
               ELSE IF TruthyColl(unlocks.events) THEN unlocks.events
               ELSE List(<<>>)
    IN IF got.t = "event" THEN <<got.d>> ELSE got.v

\* e = evs[0]
pick_event(evs) == evs[1]

parse_next_unlock(unlocks) ==
    IF unlocks.t # "dict" THEN NoUnlock
    ELSE LET evs == event_list(unlocks)
         IN IF evs # <<>> THEN event_fields(pick_event(evs)) ELSE NoUnlock

(***************************************************************************)
(* smart_alpha_dashboard.py: what the joiner derives from the candles      *)
(* (lines 78-94).  A candle series is None or a sequence of bars; a bar is *)
(* the 6-tuple Binance returns, of which x[4] (the close) and x[5] (the    *)
(* volume) are read.  Python indexes from 0, TLA+ from 1.                  *)
(***************************************************************************)
Bar(close, volume) == <<Num(0), Num(0), Num(0), Num(0), Num(close), Num(volume)>>

\* `if kl`: None and [] are falsy.
TruthyKl(kl) == kl.t = "list" /\ kl.v # <<>>

\* kl[-n:] if len(kl) >= n else kl
LastN(seq, n) == IF Len(seq) >= n THEN SubSeq(seq, Len(seq) - n + 1, Len(seq)) ELSE seq

\* pct_from(kl, n), in thousandths of a percent.
pct_from(kl, n) ==
    IF ~TruthyKl(kl) \/ Len(kl.v) < 2 THEN None
    ELSE LET sub == LastN(kl.v, n)
             a == FloatVal(sub[1][5])
             b == FloatVal(sub[Len(sub)][5])
         IN IF a > 0 THEN Num(((b - a) * 100000) \div a) ELSE None

RECURSIVE SumVolume(_)
SumVolume(bars) ==
    IF bars = <<>> THEN 0 ELSE FloatVal(bars[1][6]) + SumVolume(Tail(bars))

\* vol_last_1h = float(kl1h[-1][5]) if kl1h else None
vol_last_1h_of(kl1h) ==
    IF TruthyKl(kl1h) THEN Num(FloatVal(kl1h.v[Len(kl1h.v)][6])) ELSE None

\* vol_prev_6h: the mean volume of kl1h[-7:-1], in thousandths (0 when the
\* series has fewer than 7 bars), or None without a series.
vol_prev_6h_of(kl1h) ==
    IF TruthyKl(kl1h)
    THEN LET n == Len(kl1h.v)
             prev == IF n >= 7 THEN SubSeq(kl1h.v, n - 6, n - 1) ELSE <<>>
         IN Num((SumVolume(prev) * 1000) \div 6)
    ELSE None

\* vol_accel = (vol_last_1h + 1) / (vol_prev_6h + 1) if (vol_last_1h and
\* vol_prev_6h) else None, in thousandths.
vol_accel_of(vol_last_1h, vol_prev_6h) ==
    IF Truthy(vol_last_1h) /\ Truthy(vol_prev_6h)
    THEN Num(((vol_last_1h.v + 1) * 1000 * 1000) \div (vol_prev_6h.v + 1000))
    ELSE None

\* The candle-derived fields of one joined record.
derive(kl1h, kl15) ==
    LET vl == vol_last_1h_of(kl1h)
        vp == vol_prev_6h_of(kl1h)
    IN [chg_15m |-> IF TruthyKl(kl15) THEN pct_from(kl15, 2) ELSE None,
        chg_1h |-> IF TruthyKl(kl1h) THEN pct_from(kl1h, 2) ELSE None,
        chg_4h |-> IF TruthyKl(kl1h) THEN pct_from(kl1h, 5) ELSE None,
        chg_24h |-> IF TruthyKl(kl1h) THEN pct_from(kl1h, 25) ELSE None,
        vol_last_1h |-> vl,
        vol_prev_6h |-> vp,
        vol_accel |-> vol_accel_of(vl, vp)]

(***************************************************************************)
(* Bounds of the model                                                     *)
(***************************************************************************)
\* Longest event list of an unlock payload.
MaxEvents == 2
\* Longest candle series.
MaxBars == 8

SeqsUpTo(S, n) == UNION {[1..k -> S] : k \in 0..n}

(***************************************************************************)
(* Calls of the pure functions: Init draws the arguments, one action per   *)
(* function applies it.                                                    *)
(***************************************************************************)
ScoreKeys == {"momentum", "fundamentals", "unlock", "usage"}

\* Sub-scores handed to smart_alpha_score, in thousandths: far below and far
\* above anything the sub-score functions produce, and ordinary values.
SubScoreValues == {-10000000, -12000, 0, 3500, 10000000}

ComponentsPool == UNION {[K -> SubScoreValues] : K \in SUBSET ScoreKeys}

DaysValues ==
    {None} \cup {Num(d) : d \in {-1000, 2000, 3000, 3500, 7000, 7500, 14000, 14500}}

PctValues ==
    {None} \cup {Num(p) : p \in {0, 999, 1000, 2000, 4999, 5000, 9999, 10000, 50000}}

\* Unlock events in the key spellings the parser accepts.
EventPool ==
    { [date |-> Date(10), percent |-> Num(2000), usdValue |-> Num(500)],
      [unlockDate |-> Date(2), pct |-> Str("12"), usd |-> Num(900)],
      [time |-> Date(-5), percentage |-> Num(6000), valueUsd |-> Num(700)],
      [date |-> Date(5)],
      [percent |-> Num(0), pct |-> Num(3000)],
      EmptyDict }

UnlockPayloads ==
    {[t |-> "other"]}
    \cup {Dict(Event(e), None) : e \in EventPool}
    \cup {Dict(List(es), None) : es \in SeqsUpTo(EventPool, MaxEvents)}
    \cup {Dict(None, List(es)) : es \in SeqsUpTo(EventPool, MaxEvents)}
    \cup {Dict(List(<<>>), List(es)) : es \in SeqsUpTo(EventPool, MaxEvents)}

\* A candle series of n bars: every bar but the last closes at c0 with volume
\* v0, the last closes at c1 with volume v1.
Series(n, c0, v0, c1, v1) ==
    [t |-> "list", v |-> [k \in 1..n |-> IF k < n THEN Bar(c0, v0) ELSE Bar(c1, v1)]]

SeriesPool ==
    {None}
    \cup {Series(n, c0, v0, c1, v1) :
            n \in {0, 1, 2, 7, MaxBars}, c0 \in {0, 100}, v0 \in {0, 6},
            c1 \in {110}, v1 \in {0, 6, 13}}

PureCalls ==
         {[fn |-> "smart_alpha_score", args |-> [components |-> c]] :
            c \in ComponentsPool}
    \cup {[fn |-> "unlock_risk_score", args |-> [days |-> d, pct |-> p]] :
            d \in DaysValues, p \in PctValues}
    \cup {[fn |-> "parse_next_unlock", args |-> [unlocks |-> u]] :
            u \in UnlockPayloads}
    \cup {[fn |-> "derive", args |-> [kl1h |-> a, kl15 |-> b]] :
            a \in SeriesPool, b \in {None, Series(2, 100, 0, 110, 0)}}

NoCall == [fn |-> "none", args |-> None, done |-> FALSE, ret |-> None]

Apply_smart_alpha_score ==
    /\ call.fn = "smart_alpha_score" /\ ~call.done
    /\ call' = [call EXCEPT !.done = TRUE,
                            !.ret = smart_alpha_score(call.args.components)]
    /\ UNCHANGED <<httpVars, cycleVars>>

Apply_unlock_risk_score ==
    /\ call.fn = "unlock_risk_score" /\ ~call.done
    /\ call' = [call EXCEPT !.done = TRUE,
                            !.ret = unlock_risk_score(call.args.days, call.args.pct)]
    /\ UNCHANGED <<httpVars, cycleVars>>

Apply_parse_next_unlock ==
    /\ call.fn = "parse_next_unlock" /\ ~call.done
    /\ call' = [call EXCEPT !.done = TRUE,
                            !.ret = parse_next_unlock(call.args.unlocks)]
    /\ UNCHANGED <<httpVars, cycleVars>>

\* The candle fields of one joined record and the momentum score computed from
\* them (dashboard lines 86-94 and 135).
Apply_derive ==
    /\ call.fn = "derive" /\ ~call.done
    /\ LET d == derive(call.args.kl1h, call.args.kl15)
       IN call' = [call EXCEPT
                     !.done = TRUE,
                     !.ret = [derived |-> d,
                              accel_term |-> accel_term(d.vol_accel),
                              momentum |-> momentum_score(d.chg_15m, d.chg_1h,
                                              d.chg_4h, d.chg_24h, d.vol_accel)]]
    /\ UNCHANGED <<httpVars, cycleVars>>

HttpIdle ==
    /\ h_pc = "idle" /\ h_retries = 0 /\ h_i = 0 /\ h_requests = <<>>
    /\ h_sleeps = <<>> /\ h_last_err = None /\ h_result = None

CycleIdle ==
    /\ pc = "idle" /\ min_qvol = 0 /\ alpha_resp = None /\ ex_resp = None
    /\ alpha_map = <<>> /\ stats = None /\ idx = 0 /\ visited = <<>>
    /\ rows = <<>> /\ candles = <<>> /\ df = <<>> /\ outcome = "idle" /\ reports = <<>>

InitPure ==
    /\ \E c \in PureCalls : call = [fn |-> c.fn, args |-> c.args, done |-> FALSE, ret |-> None]
    /\ HttpIdle
    /\ CycleIdle

NextPure ==
    \/ Apply_smart_alpha_score
    \/ Apply_unlock_risk_score
    \/ Apply_parse_next_unlock
    \/ Apply_derive

SpecPure == InitPure /\ [][NextPure]_vars

(***************************************************************************)
(* core/utils.py: HttpClient.jget                                          *)
(*                                                                         *)
(* One call.  What the server does at each request is drawn when the       *)
(* request is issued: the connection fails (session.get raises), or a      *)
(* response arrives with a status code and a body that is valid JSON or    *)
(* not.  Sleeps are recorded in half seconds.                              *)
(***************************************************************************)
\* retries: int = 3
DefaultRetries == 3

\* if r.status_code in (429, 418, 520, 525)
TransientCodes == {429, 418, 520, 525}

StatusCodes == {200, 404, 418, 429, 500, 502, 520, 525}

NetErr == [t |-> "neterr"]
Response(code, json) == [t |-> "response", code |-> code, json |-> json]

RequestOutcomes ==
    {NetErr} \cup {Response(c, TRUE) : c \in StatusCodes} \cup {Response(200, FALSE)}

\* r.raise_for_status() raises HTTPError for a 4xx or 5xx status.
RaisesForStatus(code) == code >= 400 /\ code < 600

\* The exception an attempt throws; attempt is the value of i.
Error(attempt, kind) == [t |-> "error", attempt |-> attempt, kind |-> kind]
RuntimeError == [t |-> "error", attempt |-> -1, kind |-> "HTTP GET failed"]

\* The parsed body of the response to attempt i.
Payload(attempt) == [t |-> "payload", attempt |-> attempt]

ThrownBy(o, i) ==
    IF o.t = "neterr" THEN Error(i, "network")
    ELSE IF RaisesForStatus(o.code) THEN Error(i, "http")
    ELSE Error(i, "json")

\* A variant of the except clause that keeps the first error it saw.
record_error_keep_first(last_err, e) == IF IsNone(last_err) THEN e ELSE last_err

\* except Exception as e: last_err = e
record_error(last_err, e) == e

\* jget(url, ...) is entered; every caller of the repository leaves retries at
\* its default, the model also covers smaller values.
JgetCall ==
    /\ h_pc = "idle"
    /\ \E n \in 0..DefaultRetries : h_retries' = n
    /\ h_pc' = "loop"
    /\ h_i' = 0 /\ h_requests' = <<>> /\ h_sleeps' = <<>>
    /\ h_last_err' = None /\ h_result' = None
    /\ UNCHANGED <<callVars, cycleVars>>

\* An iteration whose response has a status in (429, 418, 520, 525):
\* time.sleep(1 + i); continue.
JgetTransient ==
    /\ h_pc = "loop" /\ h_i < h_retries
    /\ \E o \in RequestOutcomes :
        /\ o.t = "response" /\ o.code \in TransientCodes
        /\ h_requests' = Append(h_requests, o)
    /\ h_sleeps' = Append(h_sleeps, 2 * (1 + h_i))
    /\ h_i' = h_i + 1
    /\ UNCHANGED <<h_pc, h_retries, h_last_err, h_result, callVars, cycleVars>>

\* An iteration that reaches `return r.json()` and returns.
JgetReturn ==
    /\ h_pc = "loop" /\ h_i < h_retries
    /\ \E o \in RequestOutcomes :
        /\ o.t = "response" /\ o.code \notin TransientCodes
        /\ ~RaisesForStatus(o.code) /\ o.json
        /\ h_requests' = Append(h_requests, o)
    /\ h_pc' = "returned"
    /\ h_result' = Payload(h_i)
    /\ UNCHANGED <<h_retries, h_i, h_sleeps, h_last_err, callVars, cycleVars>>

\* An iteration in which session.get, raise_for_status or r.json() raises:
\* last_err = e; time.sleep(0.5 * (i + 1)).
JgetExcept ==
    /\ h_pc = "loop" /\ h_i < h_retries
    /\ \E o \in RequestOutcomes :
        /\ \/ o.t = "neterr"
           \/ /\ o.t = "response" /\ o.code \notin TransientCodes
              /\ (RaisesForStatus(o.code) \/ ~o.json)
        /\ h_requests' = Append(h_requests, o)
        /\ h_last_err' = record_error(h_last_err, ThrownBy(o, h_i))
    /\ h_sleeps' = Append(h_sleeps, h_i + 1)
    /\ h_i' = h_i + 1
    /\ UNCHANGED <<h_pc, h_retries, h_result, callVars, cycleVars>>

\* The loop is over: raise last_err or RuntimeError("HTTP GET failed").
JgetRaise ==
    /\ h_pc = "loop" /\ h_i >= h_retries
    /\ h_pc' = "raised"
    /\ h_result' = IF IsNone(h_last_err) THEN RuntimeError ELSE h_last_err
    /\ UNCHANGED <<h_retries, h_i, h_requests, h_sleeps, h_last_err, callVars, cycleVars>>

InitHttp ==
    /\ call = NoCall
    /\ HttpIdle
    /\ CycleIdle

NextHttp ==
    \/ JgetCall
    \/ JgetTransient
    \/ JgetReturn
    \/ JgetExcept
    \/ JgetRaise

SpecHttp == InitHttp /\ [][NextHttp]_vars

(***************************************************************************)
(* core/data_sources.py: universe resolution and the adapters              *)
(***************************************************************************)
Raise == [t |-> "raise"]

\* str.upper() and str.lower() on the symbols of the model.
Upper(s) == CASE s = "aa" -> "AA" [] s = "bb" -> "BB" [] OTHER -> s
Lower(s) == CASE s = "AA" -> "aa" [] s = "BB" -> "bb" [] OTHER -> s

\* get_exchange_info: the mirrors are tried in order, the first that answers
\* wins; RuntimeError when all three fail.  mirrors[k] says whether mirror k
\* answers, info is the exchange info every mirror serves.
get_exchange_info(mirrors, info) ==
    IF \E k \in 1..Len(mirrors) : mirrors[k] THEN info ELSE Raise

\* A variant of get_usdt_spot_symbols without the status test.
get_usdt_spot_symbols_any_status(ex) ==
    {s.symbol : s \in {x \in ex.symbols : x.quoteAsset = "USDT"}}

\* get_usdt_spot_symbols, on the exchange info it was given.
get_usdt_spot_symbols(ex) ==
    {s.symbol : s \in {x \in ex.symbols : x.status = "TRADING" /\ x.quoteAsset = "USDT"}}

\* The tokens of the registry answer: data.get("data") if it is a dict, the
\* answer itself if it is a list; `tokens or []`.
registry_tokens(data) ==
    LET tokens == IF data.t = "dict" THEN data.data ELSE data
    IN IF tokens.t = "list" THEN tokens.v ELSE <<>>

\* One row of get_alpha_token_list.
alpha_row(t) ==
    [alphaId |-> Or(Get(t, "alphaId"), Get(t, "id")),
     symbol |-> Upper(Or(Get(t, "symbol"), Str("")).v)]

get_alpha_token_list(data) ==
    LET tokens == registry_tokens(data)
    IN [k \in 1..Len(tokens) |-> alpha_row(tokens[k])]

\* The loop of map_alpha_to_binance over the rows of the alpha frame.
RECURSIVE map_rows(_, _)
map_rows(alpha, syms) ==
    IF alpha = <<>> THEN <<>>
    ELSE LET r == Head(alpha)
             base == r.symbol
             spot == base \o "USDT"
             rest == map_rows(Tail(alpha), syms)
         IN IF base = "" THEN rest
            ELSE IF spot \in syms
                 THEN <<[alphaId |-> r.alphaId, symbol |-> base, spot_symbol |-> spot]>> \o rest
                 ELSE rest

\* map_alpha_to_binance: raises when the registry call raises or when every
\* exchange mirror fails; the exchange is asked only after the registry answered.
map_alpha_to_binance(aresp, ex) ==
    IF aresp.t = "raise" \/ ex.t = "raise" THEN Raise
    ELSE [t |-> "frame", rows |-> map_rows(get_alpha_token_list(aresp), get_usdt_spot_symbols(ex))]

\* get_ticker_24h_all: the frame it returns and the message it shows.  Any
\* exception and any non-list body give pd.DataFrame(), a frame without columns.
EmptyFrame == [t |-> "frame", columns |-> {}, rows |-> <<>>]

get_ticker_24h_all(tick) ==
    IF tick.t = "raise" THEN [frame |-> EmptyFrame, msg |-> <<"error: Binance API error">>]
    ELSE IF tick.t # "list"
         THEN [frame |-> EmptyFrame, msg |-> <<"warning: Binance returned unexpected format">>]
    ELSE IF tick.v = <<>>
         THEN [frame |-> EmptyFrame, msg |-> <<"warning: Binance returned empty ticker data">>]
    ELSE [frame |-> [t |-> "frame", columns |-> {"symbol", "quoteVolume", "lastPrice"},
                     rows |-> tick.v],
          msg |-> <<>>]

\* get_klines builds its URL from the name BINANCE, which the module never
\* defines (it defines BINANCE_PRIMARY, BINANCE_BACKUP and BINANCE_DATA): the
\* f-string raises NameError before any request is made, whatever the arguments
\* and whatever the exchange would have answered.
get_klines(series) == Raise

\* cg_find_id_by_symbol_platform: the search endpoint first (exact symbol match,
\* else the first coin), then the coin list (exact match), else None.  A coin
\* is [id, symbol]; search and list are Raise or a sequence of coins.
FirstMatch(coins, sym) ==
    LET hits == {k \in 1..Len(coins) : Lower(coins[k].symbol) = sym}
    IN IF hits = {} THEN None
       ELSE Str(coins[CHOOSE k \in hits : \A j \in hits : k <= j].id)

cg_find_id_by_symbol_platform(symbol_upper, search, list) ==
    LET sym == Lower(symbol_upper)
        bySearch == IF search.t = "raise" THEN None
                    ELSE IF ~IsNone(FirstMatch(search.v, sym)) THEN FirstMatch(search.v, sym)
                    ELSE IF search.v # <<>> THEN Str(search.v[1].id)
                    ELSE None
        byList == IF list.t = "raise" THEN None ELSE FirstMatch(list.v, sym)
    IN IF ~IsNone(bySearch) THEN bySearch ELSE byList

\* unlocks_lookup: the token endpoint, else the search endpoint, else None.
unlocks_lookup(primary, fallback) ==
    IF primary.t # "raise" THEN primary
    ELSE IF fallback.t # "raise" THEN fallback
    ELSE None

\* github_repo_stats on a repository URL the regular expression accepts:
\* len() of each list, None for a call that raised.
github_repo_stats(commits, contribs) ==
    [github_commits_approx |-> IF commits.t = "raise" THEN None ELSE Num(commits.n),
     github_contributors |-> IF contribs.t = "raise" THEN None ELSE Num(contribs.n)]

(***************************************************************************)
(* smart_alpha_dashboard.py: one refresh cycle                             *)
(***************************************************************************)
\* min_qvol = st.number_input(..., value=5_000_000.0, ...)
MinQvolDefault == 5000000

\* The fundamentals block (lines 97-118).  md is Raise or the coin record
\* [market_data, links]; market_data is None or a record of the four fields
\* read, links is None or [github |-> a sequence of URLs].  An exception leaves
\* what was assigned before it and skips the rest.
fundamentals(cg_id, md, commits, contribs) ==
    LET nothing == [mcap |-> None, fdv |-> None, circ_ratio |-> None,
                    gh_commits |-> None, gh_contribs |-> None]
    IN IF ~Truthy(cg_id) \/ md.t = "raise" \/ IsNone(md.market_data) THEN nothing
       ELSE LET mkt == md.market_data
                circ == safe_float(mkt.circulating_supply, None)
                total == safe_float(mkt.total_supply, None)
                market == [mcap |-> safe_float(mkt.market_cap_usd, None),
                           fdv |-> safe_float(mkt.fdv_usd, None),
                           circ_ratio |-> IF Truthy(circ) /\ Truthy(total) /\ total.v > 0
                                          THEN Num((circ.v * 1000) \div total.v)
                                          ELSE None,
                           gh_commits |-> None, gh_contribs |-> None]
            IN IF IsNone(md.links) \/ md.links.github = <<>> THEN market
               ELSE LET gh_stats == github_repo_stats(commits, contribs)
                    IN [market EXCEPT !.gh_commits = gh_stats.github_commits_approx,
                                      !.gh_contribs = gh_stats.github_contributors]

\* pd.to_datetime(x, utc=True) parses a date and raises on anything else.
ToDatetimeOk(x) == x.t = "date"

\* The unlock block (lines 121-132): un is what unlocks_lookup returned.  When
\* pd.to_datetime raises, the except clause leaves all three fields None.
unlock_fields(un) ==
    LET pu == parse_next_unlock(IF IsNone(un) THEN Dict(None, None) ELSE un)
        nothing == [days |-> None, pct |-> None, usd |-> None]
    IN IF Truthy(pu.next_date)
       THEN IF ToDatetimeOk(pu.next_date)
            THEN [days |-> Num(pu.next_date.v * 1000), pct |-> pu.next_pct,
                  usd |-> pu.next_usd]
            ELSE nothing
       ELSE [days |-> None, pct |-> pu.next_pct, usd |-> pu.next_usd]

\* The first ticker row of a symbol: stats[stats["symbol"] == sym].iloc[0].
SnapshotRows(frame, sym) == SelectSeq(frame.rows, LAMBDA x : x.symbol = sym)

\* A variant of the volume filter that lets every candidate through.
below_min_volume_never(qvol, threshold) == FALSE

\* if qvol < min_qvol: continue
below_min_volume(qvol, threshold) == qvol < threshold

\* The record appended to rows for candidate r (lines 71-165).
joined_row(r, strow, w) ==
    LET k1h == get_klines(w.kl1h)
        k15 == get_klines(w.kl15)
        failed == k1h.t = "raise" \/ k15.t = "raise"
        d == derive(IF failed THEN None ELSE k1h, IF failed THEN None ELSE k15)
        cg_id == cg_find_id_by_symbol_platform(r.symbol, w.search, w.list)
        f == fundamentals(cg_id, w.md, w.commits, w.contribs)
        u == unlock_fields(unlocks_lookup(w.un_primary, w.un_fallback))
        mom == momentum_score(d.chg_15m, d.chg_1h, d.chg_4h, d.chg_24h, d.vol_accel)
        fund == fundamental_score(f.mcap, f.fdv, f.circ_ratio)
        unl == unlock_risk_score(u.days, u.pct)
        use == usage_dev_score(None, None, f.gh_commits, f.gh_contribs)
        smart == smart_alpha_score([momentum |-> mom, fundamentals |-> fund,
                                    unlock |-> unl, usage |-> use])
    IN [symbol |-> r.spot_symbol,
        base |-> r.symbol,
        price_usd |-> FloatVal(strow.lastPrice),
        quoteVolume_24h |-> FloatVal(strow.quoteVolume),
        chg_15m_pct |-> d.chg_15m, chg_1h_pct |-> d.chg_1h,
        chg_4h_pct |-> d.chg_4h, chg_24h_pct |-> d.chg_24h,
        vol_accel_1h_vs_6h |-> d.vol_accel,
        market_cap_usd |-> f.mcap, fdv_usd |-> f.fdv, circ_ratio |-> f.circ_ratio,
        next_unlock_days |-> u.days, next_unlock_pct |-> u.pct,
        next_unlock_usd |-> u.usd,
        github_commits_30d |-> f.gh_commits, github_contributors |-> f.gh_contribs,
        alpha_score |-> smart,
        alphaId |-> r.alphaId]

\* ---- what the outside world may answer ----
\* Longest token list of the alpha registry.
MaxTokens == 2

TokenPool ==
    { [alphaId |-> Str("ALPHA_0")],
      [symbol |-> Str("aa"), alphaId |-> Str("ALPHA_1")],
      [symbol |-> Str("BB"), id |-> Str("ALPHA_2")] }

AlphaResponses ==
    {Raise, [t |-> "dict", data |-> None]}
    \cup {[t |-> "dict", data |-> List(ts)] : ts \in SeqsUpTo(TokenPool, MaxTokens)}

ExSymbol(sym, status, quote) == [symbol |-> sym, status |-> status, quoteAsset |-> quote]

ExchangeInfos ==
    {[t |-> "dict",
      symbols |-> {ExSymbol("AAUSDT", a, "USDT"), ExSymbol("AABTC", "TRADING", "BTC")} \cup b] :
        a \in {"TRADING", "BREAK"},
        b \in {{}, {ExSymbol("BBUSDT", "TRADING", "USDT")}}}

TickerRow(sym, qv, lp) == [symbol |-> sym, quoteVolume |-> Str(qv), lastPrice |-> Str(lp)]

TickerRowsOf(sym) ==
    {<<>>,
     <<TickerRow(sym, "10000000.0", "150.0")>>,
     <<TickerRow(sym, "1000000.0", "150.0")>>,
     <<TickerRow(sym, "n/a", "150.0")>>,
     <<TickerRow(sym, "10000000.0", "n/a")>>}

TickerResponses ==
    {Raise, [t |-> "dict"]}
    \cup {List(a \o b) : a \in TickerRowsOf("AAUSDT"), b \in TickerRowsOf("BBUSDT")}

Coin(id, sym) == [id |-> id, symbol |-> sym]

MarketData(mc, fdv, circ, total) ==
    [t |-> "dict", market_cap_usd |-> mc, fdv_usd |-> fdv, circulating_supply |-> circ,
     total_supply |-> total]

\* What each endpoint would answer for one candidate.
AllEnrichmentWorlds ==
    [kl1h : {Raise, Series(7, 100, 6, 110, 13)},
     kl15 : {Raise, Series(2, 100, 0, 110, 0)},
     search : {Raise, List(<<Coin("other", "zz"), Coin("aa-coin", "aa"), Coin("bb-coin", "BB")>>)},
     list : {Raise, List(<<Coin("aa-coin", "aa"), Coin("bb-coin", "bb")>>)},
     md : {Raise,
           [t |-> "md", market_data |-> None, links |-> None],
           [t |-> "md",
            market_data |-> MarketData(Num(1000000), None, Num(5), Num(0)),
            links |-> None],
           [t |-> "md",
            market_data |-> MarketData(Num(100000000), Num(100000000), Num(600), Num(1000)),
            links |-> [t |-> "dict", github |-> <<"https://github.com/org/repo">>]]},
     commits : {Raise, [t |-> "list", n |-> 60]},
     contribs : {[t |-> "list", n |-> 5]},
     un_primary : {Raise,
                   Dict(List(<<[unlockDate |-> Date(2), pct |-> Str("12"),
                                usd |-> Num(900)]>>), None)},
     un_fallback : {Raise,
                    Dict(None, Event([date |-> Date(10), percent |-> Num(2000)])),
                    Dict(List(<<[date |-> Str("soon"), percent |-> Num(2000)]>>), None)}]

\* The answers of endpoints that are never asked are left at Raise: the coin
\* list when the search found an id, the coin record when no id was found, the
\* commits when the coin record links no repository, the unlock search when the
\* token endpoint answered.  The two candle series come from one endpoint,
\* which is available for both or for neither; the candle fields depend on no
\* other endpoint, so its outage is drawn in one world only, the one in which
\* every other endpoint fails as well.
EnrichmentWorlds ==
    {w \in AllEnrichmentWorlds :
        /\ (w.kl1h.t = "raise") = (w.kl15.t = "raise")
        /\ w.kl1h.t = "raise" =>
              \A e \in {"search", "list", "md", "commits", "un_primary", "un_fallback"} :
                  w[e].t = "raise"
        /\ w.search.t # "raise" => w.list.t = "raise"
        /\ (w.search.t = "raise" /\ w.list.t = "raise") => w.md.t = "raise"
        /\ (w.md.t = "raise" \/ IsNone(w.md.links)) => w.commits.t = "raise"
        /\ w.un_primary.t # "raise" => w.un_fallback.t = "raise"}

Stop(msg) ==
    /\ reports' = Append(reports, msg)
    /\ outcome' = "stopped"
    /\ pc' = "end"

\* Lines 36-45: map_alpha_to_binance; st.error and st.stop when it raises or
\* when the frame is empty.
ResolveUniverse ==
    /\ pc = "alpha"
    /\ \E aresp \in AlphaResponses, info \in ExchangeInfos, mirrors \in [1..3 -> BOOLEAN] :
        LET ex == IF aresp.t = "raise" THEN None ELSE get_exchange_info(mirrors, info)
            m == IF aresp.t = "raise" THEN Raise ELSE map_alpha_to_binance(aresp, ex)
        IN /\ alpha_resp' = aresp
           /\ ex_resp' = ex
           /\ \/ /\ m.t = "raise"
                 /\ Stop("error: Failed to load Alpha list")
                 /\ UNCHANGED alpha_map
              \/ /\ m.t = "frame" /\ m.rows = <<>>
                 /\ Stop("error: No Binance Alpha tokens matched USDT spot pairs right now.")
                 /\ alpha_map' = m.rows
              \/ /\ m.t = "frame" /\ m.rows # <<>>
                 /\ alpha_map' = m.rows
                 /\ pc' = "stats"
                 /\ UNCHANGED <<outcome, reports>>
    /\ UNCHANGED <<min_qvol, stats, idx, visited, rows, candles, df, callVars, httpVars>>

\* Lines 50-54: get_ticker_24h_all never raises, so the except clause of the
\* script is never entered.
FetchStats ==
    /\ pc = "stats"
    /\ \E tick \in TickerResponses :
        LET got == get_ticker_24h_all(tick)
        IN /\ stats' = got.frame
           /\ reports' = reports \o got.msg
    /\ pc' = "loop"
    /\ UNCHANGED <<min_qvol, alpha_resp, ex_resp, alpha_map, idx, visited, rows, candles, df,
                   outcome, callVars, httpVars>>

Candidate == alpha_map[idx + 1]

InLoop == pc = "loop" /\ idx < Len(alpha_map)

\* An exception nothing catches ends the script run.
Crash ==
    /\ outcome' = "crashed"
    /\ pc' = "end"
    /\ visited' = Append(visited, Candidate.spot_symbol)
    /\ UNCHANGED <<min_qvol, alpha_resp, ex_resp, alpha_map, stats, idx, rows, candles, df,
                   reports, callVars, httpVars>>

\* Line 63: stats["symbol"] on a frame without that column raises KeyError.
CandidateKeyError ==
    /\ InLoop
    /\ "symbol" \notin stats.columns
    /\ Crash

\* Lines 66 and 69: float() of a ticker field that is no number raises
\* ValueError.
CandidateValueError ==
    /\ InLoop
    /\ "symbol" \in stats.columns
    /\ LET strow == SnapshotRows(stats, Candidate.spot_symbol)
       IN /\ strow # <<>>
          /\ \/ ~FloatOk(strow[1].quoteVolume)
             \/ /\ FloatOk(strow[1].quoteVolume)
                /\ ~below_min_volume(FloatVal(strow[1].quoteVolume), min_qvol)
                /\ ~FloatOk(strow[1].lastPrice)
    /\ Crash

\* Lines 64-68: `continue` for a candidate without a ticker row or below the
\* minimum quote volume.
CandidateSkipped ==
    /\ InLoop
    /\ "symbol" \in stats.columns
    /\ LET strow == SnapshotRows(stats, Candidate.spot_symbol)
       IN \/ strow = <<>>
          \/ /\ strow # <<>>
             /\ FloatOk(strow[1].quoteVolume)
             /\ below_min_volume(FloatVal(strow[1].quoteVolume), min_qvol)
    /\ idx' = idx + 1
    /\ visited' = Append(visited, Candidate.spot_symbol)
    /\ UNCHANGED <<pc, min_qvol, alpha_resp, ex_resp, alpha_map, stats, rows, candles, df,
                   outcome, reports, callVars, httpVars>>

\* Lines 69-165: the candidate is enriched, scored and appended to rows.
CandidateScored ==
    /\ InLoop
    /\ "symbol" \in stats.columns
    /\ LET strow == SnapshotRows(stats, Candidate.spot_symbol)
       IN /\ strow # <<>>
          /\ FloatOk(strow[1].quoteVolume)
          /\ ~below_min_volume(FloatVal(strow[1].quoteVolume), min_qvol)
          /\ FloatOk(strow[1].lastPrice)
          /\ \E w \in EnrichmentWorlds :
                /\ rows' = Append(rows, joined_row(Candidate, strow[1], w))
                /\ candles' = Append(candles, [kl1h |-> w.kl1h, kl15 |-> w.kl15])
    /\ idx' = idx + 1
    /\ visited' = Append(visited, Candidate.spot_symbol)
    /\ UNCHANGED <<pc, min_qvol, alpha_resp, ex_resp, alpha_map, stats, df,
                   outcome, reports, callVars, httpVars>>

\* df.sort_values("alpha_score", ascending=False) with pandas' default
\* kind="quicksort", which is not stable: any arrangement of the rows with the
\* scores in descending order.
SortedByScore(rs) ==
    {[k \in 1..Len(rs) |-> rs[p[k]]] : p \in
        {q \in Permutations(1..Len(rs)) :
            \A k \in 1..(Len(rs) - 1) : rs[q[k]].alpha_score >= rs[q[k + 1]].alpha_score}}

\* Lines 170-175: the frame is built; st.warning and st.stop when it is empty,
\* else it is sorted and handed to the display code.
BuildDataframe ==
    /\ pc = "loop" /\ idx >= Len(alpha_map)
    /\ \/ /\ rows = <<>>
          /\ Stop("warning: No Alpha tokens met your filters right now.")
          /\ UNCHANGED df
       \/ /\ rows # <<>>
          /\ df' \in SortedByScore(rows)
          /\ outcome' = "ranked"
          /\ pc' = "end"
          /\ UNCHANGED reports
    /\ UNCHANGED <<min_qvol, alpha_resp, ex_resp, alpha_map, stats, idx, visited, rows,
                   candles, callVars, httpVars>>

Init ==
    /\ call = NoCall
    /\ HttpIdle
    /\ pc = "alpha"
    /\ min_qvol \in {MinQvolDefault, 4 * MinQvolDefault}
    /\ alpha_resp = None /\ ex_resp = None /\ alpha_map = <<>> /\ stats = None
    /\ idx = 0 /\ visited = <<>> /\ rows = <<>> /\ candles = <<>> /\ df = <<>>
    /\ outcome = "running" /\ reports = <<>>

Next ==
    \/ ResolveUniverse
    \/ FetchStats
    \/ CandidateKeyError
    \/ CandidateValueError
    \/ CandidateSkipped
    \/ CandidateScored
    \/ BuildDataframe

Spec == Init /\ [][Next]_vars

(***************************************************************************)
(* Properties of the pure functions (checked under SpecPure)               *)
(***************************************************************************)
Returned(fn) == call.fn = fn /\ call.done

\* C1: whatever the four sub-scores are (extreme, negative, or missing from the
\* dict), smart_alpha_score returns a value between 0 and 100 (in units of 1e-5:
\* between 0 and 10000000).
C1_ScoreWithinBounds ==
    Returned("smart_alpha_score") => (0 <= call.ret /\ call.ret <= 100 * 100000)

\* C1 witness: a call with a missing key whose weighted sum lies above 100 and
\* was cut back to exactly 100.
C1_Witness ==
    /\ Returned("smart_alpha_score")
    /\ DOMAIN call.args.components # ScoreKeys
    /\ shifted_total(call.args.components) > 100 * 100000
    /\ call.ret = 100 * 100000

\* The unlock-risk score as C9 states it.
C9_Stated(days, pct) ==
    LET known == IsNum(days) /\ IsNum(pct)
        timing == IF ~known THEN 0
                  ELSE IF days.v <= 3000 /\ pct.v >= 1000 THEN -5000
                  ELSE IF days.v > 3000 /\ days.v <= 7000 /\ pct.v >= 1000 THEN -3000
                  ELSE IF days.v > 7000 /\ days.v <= 14000 /\ pct.v >= 1000 THEN -1500
                  ELSE 0
        big == IF IsNum(pct) /\ pct.v >= 5000 THEN -3000 ELSE 0
        huge == IF IsNum(pct) /\ pct.v >= 10000 THEN -5000 ELSE 0
    IN timing + big + huge

\* C9: unlock_risk_score applies exactly one timing penalty, that of the nearest
\* band that matches (-5.0 up to 3 days, -3.0 up to 7, -1.5 up to 14, each only
\* with pct >= 1; none when days or pct is absent), plus -3.0 for pct >= 5 and a
\* further -5.0 for pct >= 10; 2 days and 2 percent give exactly -5.0.
C9_UnlockRiskBands ==
    Returned("unlock_risk_score") =>
        /\ call.ret = C9_Stated(call.args.days, call.args.pct)
        /\ (call.args.days = Num(2000) /\ call.args.pct = Num(2000)) => call.ret = -5000

\* C9 witness: the call with 2 days and 2 percent has returned -5.0.
C9_Witness ==
    /\ Returned("unlock_risk_score")
    /\ call.args.days = Num(2000) /\ call.args.pct = Num(2000)
    /\ call.ret = -5000

\* The dated events of a payload that lie in the future.
FutureEvents(evs) ==
    {i \in 1..Len(evs) : LET d == event_fields(evs[i]).next_date
                         IN d.t = "date" /\ d.v > 0}

\* C8: parse_next_unlock returns the fields of the nearest future event of the
\* payload, wherever it stands in the list, and every field absent when the
\* payload has no event.
C8_NearestFutureEvent ==
    (Returned("parse_next_unlock") /\ call.args.unlocks.t = "dict") =>
        LET evs == event_list(call.args.unlocks)
            fut == FutureEvents(evs)
        IN /\ evs = <<>> => call.ret = NoUnlock
           /\ (fut # {} /\ \A i \in 1..Len(evs) : event_fields(evs[i]).next_date.t = "date") =>
                \E i \in fut :
                    /\ \A j \in fut : event_fields(evs[i]).next_date.v
                                        <= event_fields(evs[j]).next_date.v
                    /\ call.ret = event_fields(evs[i])

\* C10: with a last 1h bar of volume 0 and a mean volume of 0 over the six bars
\* before it, the volume acceleration is unavailable and the acceleration term
\* of the momentum score is what an acceleration of exactly 1 contributes.
C10_NeutralAccelTerm ==
    (/\ Returned("derive")
     /\ call.args.kl1h.t = "list" /\ Len(call.args.kl1h.v) >= 7
     /\ IsNum(call.ret.derived.vol_last_1h) /\ call.ret.derived.vol_last_1h.v = 0
     /\ IsNum(call.ret.derived.vol_prev_6h) /\ call.ret.derived.vol_prev_6h.v = 0)
    => /\ IsNone(call.ret.derived.vol_accel)
       /\ call.ret.accel_term = accel_term(Num(1000))
       /\ call.ret.accel_term = 0

(***************************************************************************)
(* Properties of HttpClient.jget (checked under SpecHttp)                  *)
(***************************************************************************)
\* A 4xx status that is not a rate-limit status.
NonTransientClientError(o) ==
    o.t = "response" /\ o.code >= 400 /\ o.code < 500 /\ o.code \notin {429, 418}

\* C6: a response with a non-transient HTTP error status (404, ...) makes the
\* call fail at once: it stays the only request of the call and nothing is
\* slept.
C6_NoRetryOnClientError ==
    (h_requests # <<>> /\ NonTransientClientError(h_requests[1])) =>
        /\ Len(h_requests) = 1
        /\ h_sleeps = <<>>

Succeeded(o) == o.t = "response" /\ o.code = 200 /\ o.json

\* The attempts (values of i) that threw.
ThrowingAttempts ==
    {k \in 1..Len(h_requests) :
        LET o == h_requests[k]
        IN o.t = "neterr" \/ (o.code \notin TransientCodes /\ ~Succeeded(o))}

\* What C7 says of the requests issued and of a normal return: at most retries
\* requests; a success is the last request of the call and its payload is what
\* the call returns; the call returns only a payload.
C7_RequestsAndReturn ==
    /\ Len(h_requests) <= h_retries
    /\ \A k \in 1..Len(h_requests) :
          Succeeded(h_requests[k]) =>
              /\ k = Len(h_requests)
              /\ h_pc = "returned" /\ h_result = Payload(k - 1)
    /\ h_pc = "returned" =>
          /\ h_result.t = "payload"
          /\ Succeeded(h_requests[Len(h_requests)])
    /\ h_pc = "raised" =>
          /\ Len(h_requests) = h_retries
          /\ \A k \in 1..Len(h_requests) : ~Succeeded(h_requests[k])

\* C7 as stated: ... and when every attempt failed, the error raised is the
\* error of the last attempt.
C7_RaisesErrorOfLastAttempt ==
    /\ C7_RequestsAndReturn
    /\ (h_pc = "raised" /\ h_retries >= 1) =>
          /\ h_result.t = "error"
          /\ h_result.attempt = h_retries - 1

\* C7 as amended: ... and when every attempt failed, the error raised is the one
\* thrown by the latest attempt that threw (network error, HTTP error for a
\* status outside 429/418/520/525, undecodable body), or the generic
\* RuntimeError("HTTP GET failed") when no attempt threw.
C7_RaisesLatestThrownError ==
    /\ C7_RequestsAndReturn
    /\ h_pc = "raised" =>
          IF ThrowingAttempts = {} THEN h_result = RuntimeError
          ELSE \E k \in ThrowingAttempts :
                  /\ \A j \in ThrowingAttempts : j <= k
                  /\ h_result = ThrownBy(h_requests[k], k - 1)

\* C7 witness: three attempts, the first two threw, the last one was answered
\* 429, and the call raised the second attempt's error.
C7_Witness ==
    /\ h_pc = "raised" /\ h_retries = DefaultRetries
    /\ h_requests[1] = NetErr
    /\ h_requests[2].t = "response" /\ h_requests[2].code = 502
    /\ h_requests[3].t = "response" /\ h_requests[3].code = 429
    /\ h_result = Error(1, "http")

(***************************************************************************)
(* Properties of the refresh cycle (checked under Spec)                    *)
(***************************************************************************)
\* C2: a failure local to one candidate (here: a ticker field that is no
\* number) does not end the cycle and does not keep the loop from visiting the
\* candidates after it.  The ticker feed itself answered with rows, and the
\* universe holds at least two candidates.
C2_CandidateFailureStaysLocal ==
    (pc = "end" /\ stats.t = "frame" /\ stats.rows # <<>> /\ Len(alpha_map) >= 2) =>
        /\ outcome # "crashed"
        /\ Len(visited) = Len(alpha_map)

\* C3: a cycle that has ended produced the ranked collection or stopped with an
\* explicit report; the failure of the 24h ticker feed does not end it any
\* other way.
C3_RankedOrReportedStop ==
    pc = "end" =>
        \/ outcome = "ranked" /\ df # <<>>
        \/ outcome = "stopped" /\ df = <<>> /\ reports # <<>>

\* The TRADING USDT-quoted symbols of the exchange info, read off the answer.
TradableUsdt == {s.symbol : s \in {x \in ex_resp.symbols :
                                      x.status = "TRADING" /\ x.quoteAsset = "USDT"}}

\* The upper-cased base symbol of registry entry k ("" when it has none).
RegistryBase(k) ==
    LET t == registry_tokens(alpha_resp)[k]
    IN IF "symbol" \in DOMAIN t /\ t["symbol"].t = "str" THEN Upper(t["symbol"].v) ELSE ""

\* C4: the resolved universe is exactly the registry entries whose non-empty
\* upper-cased base B has B+"USDT" among the TRADING USDT-quoted symbols, in
\* registry order, each tagged spot_symbol = B+"USDT"; for the registry
\* {AA, BB} and the tradable set {AAUSDT} it is exactly {AAUSDT}.
C4_UniverseIsExactIntersection ==
    (pc # "alpha" /\ alpha_resp.t # "raise" /\ ex_resp.t = "dict") =>
        LET n == Len(registry_tokens(alpha_resp))
            keep == {k \in 1..n : RegistryBase(k) # ""
                                   /\ (RegistryBase(k) \o "USDT") \in TradableUsdt}
        IN /\ Len(alpha_map) = Cardinality(keep)
           /\ \E f \in [1..Len(alpha_map) -> keep] :
                 /\ \A i, j \in 1..Len(alpha_map) : i < j => f[i] < f[j]
                 /\ \A i \in 1..Len(alpha_map) :
                       /\ alpha_map[i].symbol = RegistryBase(f[i])
                       /\ alpha_map[i].spot_symbol = RegistryBase(f[i]) \o "USDT"
           /\ ({RegistryBase(k) : k \in 1..n} = {"AA", "BB"} /\ TradableUsdt = {"AAUSDT"})
                 => {alpha_map[i].spot_symbol : i \in 1..Len(alpha_map)} = {"AAUSDT"}

\* C4 witness: the registry lists aa and BB, only AAUSDT is a TRADING USDT pair
\* and the resolved universe is AAUSDT alone.
C4_Witness ==
    /\ pc = "stats" /\ alpha_resp.t = "dict" /\ ex_resp.t = "dict"
    /\ {RegistryBase(k) : k \in 1..Len(registry_tokens(alpha_resp))} = {"AA", "BB"}
    /\ TradableUsdt = {"AAUSDT"}
    /\ Len(alpha_map) = 1 /\ alpha_map[1].spot_symbol = "AAUSDT"

ScoresDescending ==
    \A k \in 1..(Len(df) - 1) : df[k].alpha_score >= df[k + 1].alpha_score

\* The spot symbols of the model in lexicographic order, and the place of a
\* symbol in that order.
SymbolsInLexOrder == <<"AAUSDT", "BBUSDT">>
LexRank(sym) == CHOOSE k \in 1..Len(SymbolsInLexOrder) : SymbolsInLexOrder[k] = sym

\* C11: the frame handed to the display code is ordered by alpha_score
\* descending, and rows of equal alpha_score stand in lexicographic order of
\* their symbol, so the ranking does not depend on the order in which the
\* candidates were visited.
C11_DescendingTiesBySymbol ==
    outcome = "ranked" =>
        /\ ScoresDescending
        /\ \A k \in 1..(Len(df) - 1) :
              df[k].alpha_score = df[k + 1].alpha_score =>
                  LexRank(df[k].symbol) <= LexRank(df[k + 1].symbol)

\* The close of bar k of a series.
CloseOf(kl, k) == FloatVal(kl.v[k][5])

\* The first of the last n bars of a series (of all its bars when it has
\* fewer than n).
BaseBar(kl, n) == IF Len(kl.v) >= n THEN Len(kl.v) - n + 1 ELSE 1

\* The series is available, has at least 2 bars, and the close of the first of
\* its last n bars is positive.
Usable(kl, n) == kl.t = "list" /\ Len(kl.v) >= 2 /\ CloseOf(kl, BaseBar(kl, n)) > 0

\* (last close - first close) / first close * 100 over the last n bars, in
\* thousandths of a percent.
C12_Stated(kl, n) ==
    LET a == CloseOf(kl, BaseBar(kl, n))
        b == CloseOf(kl, Len(kl.v))
    IN Num(((b - a) * 100000) \div a)

\* C12: for every candidate that passed the snapshot and volume filters, each
\* of the four changes of its joined record is the percentage change over the
\* last 2 bars of the 15m series and the last 2 / 5 / 25 bars of the 1h series
\* whenever the klines endpoint serves that series with at least 2 bars and a
\* positive base close, and is unknown only otherwise.
C12_ChangesFromCandles ==
    \A i \in 1..Len(rows) :
        LET c == candles[i]
            r == rows[i]
        IN /\ IF Usable(c.kl15, 2) THEN r.chg_15m_pct = C12_Stated(c.kl15, 2)
                                   ELSE IsNone(r.chg_15m_pct)
           /\ IF Usable(c.kl1h, 2) THEN r.chg_1h_pct = C12_Stated(c.kl1h, 2)
                                   ELSE IsNone(r.chg_1h_pct)
           /\ IF Usable(c.kl1h, 5) THEN r.chg_4h_pct = C12_Stated(c.kl1h, 5)
                                   ELSE IsNone(r.chg_4h_pct)
           /\ IF Usable(c.kl1h, 25) THEN r.chg_24h_pct = C12_Stated(c.kl1h, 25)
                                    ELSE IsNone(r.chg_24h_pct)

====
